---- MODULE Spec2Model ----
(***************************************************************************)
(* Model of agent_results (ask.ts, and its copy in file.ts): the prebuilt  *)
(* ReAct agent graph that agent_results streams, and the capture loop that *)
(* folds the streamed states into an AgentResult.                          *)
(*                                                                         *)
(* Text that the program parses (message content) is a sequence of lexical *)
(* tokens; the empty string is the empty sequence.  SQL text (the `input`  *)
(* argument of a tool call) is never parsed and stays a string.            *)
(***************************************************************************)
EXTENDS Integers, Sequences, FiniteSets, TLC

VARIABLES
    history,        \* state.messages of the agent graph
    pc,             \* where the run is: see Phases
    steps,          \* supersteps the graph has executed
    nCalls,         \* tool calls the LLM has requested so far (ids come from it)
    llmInput,       \* the message list of the last request sent to the LLM
    calls,          \* the tool calls the tools node is working on
    running,        \* indices of calls whose tool.invoke is in flight
    finished,       \* <<index, output>> of the completed invocations, in completion order
    invoked,        \* ids of the tool calls invoked so far, in invocation order
    queries,        \* agent_results: const queries
    agentResponse,  \* agent_results: let agentResponse
    currentQuery,   \* agent_results: let currentQuery
    observed,       \* indices of the messages the capture loop has handled as lastMessage
    returned,       \* the AgentResult agent_results resolved with, or NoResult
    cli,            \* ask.ts as a program: main, askQuestion, generate_sql_query
    file,           \* file.ts as a program: main and its three-stage graph
    runs,           \* two agent_results invocations side by side: their graphs
    slots           \* ... and where their capture variables live

\* The variables of a single agent_results run.
agentVars == <<history, pc, steps, nCalls, llmInput, calls, running, finished,
               invoked, queries, agentResponse, currentQuery, observed, returned>>

\* What lies outside a single agent_results run.
outer == <<cli, file, runs, slots>>

vars == <<agentVars, outer>>

\* The graph's limit of supersteps (the library default is 25; agent.stream is
\* called without a recursionLimit).  Scaled down, the properties do not depend on it.
RecursionLimit == 5

\* The number of tool calls the LLM may request in one run.
MaxToolCalls == 3

-----------------------------------------------------------------------------
(* JSON.parse and JSON.stringify over token sequences *)

\* A string is the quote mark, the tokens of its text, and the quote mark.
Quote == "\""
NumberTokens == {"5", "8"}
LiteralTokens == {"null"}

JNumber(tok) == [t |-> "number", num |-> tok]
JString(txt) == [t |-> "string", str |-> txt]
JNull == [t |-> "null"]
JArray(items) == [t |-> "array", items |-> items]
JObject(members) == [t |-> "object", members |-> members]

\* Array.isArray(v)
IsArray(v) == v.t = "array"

SyntaxError == [ok |-> FALSE, val |-> JNull, rest |-> <<>>]
Parsed(v, rest) == [ok |-> TRUE, val |-> v, rest |-> rest]

RECURSIVE ParseString(_, _)
RECURSIVE ParseValue(_)
RECURSIVE ParseElements(_, _)
RECURSIVE ParseMembers(_, _)

\* The text of a string whose opening quote mark has been read.
ParseString(ts, acc) ==
    IF ts = <<>> THEN SyntaxError
    ELSE IF Head(ts) = Quote THEN Parsed(JString(acc), Tail(ts))
    ELSE ParseString(Tail(ts), Append(acc, Head(ts)))

\* value := number | string | null | "[" elements "]" | "{" members "}"
ParseValue(ts) ==
    IF ts = <<>> THEN SyntaxError
    ELSE LET h == Head(ts)
             r == Tail(ts)
         IN  IF h \in NumberTokens THEN Parsed(JNumber(h), r)
             ELSE IF h \in LiteralTokens THEN Parsed(JNull, r)
             ELSE IF h = Quote THEN ParseString(r, <<>>)
             ELSE IF h = "[" THEN
                 IF r # <<>> /\ Head(r) = "]" THEN Parsed(JArray(<<>>), Tail(r))
                 ELSE ParseElements(r, <<>>)
             ELSE IF h = "{" THEN
                 IF r # <<>> /\ Head(r) = "}" THEN Parsed(JObject(<<>>), Tail(r))
                 ELSE ParseMembers(r, <<>>)
             ELSE SyntaxError

\* elements := value ("," value)* "]"
ParseElements(ts, acc) ==
    LET p == ParseValue(ts)
    IN  IF ~p.ok \/ p.rest = <<>> THEN SyntaxError
        ELSE IF Head(p.rest) = "]" THEN Parsed(JArray(Append(acc, p.val)), Tail(p.rest))
        ELSE IF Head(p.rest) = "," THEN ParseElements(Tail(p.rest), Append(acc, p.val))
        ELSE SyntaxError

\* members := string ":" value ("," string ":" value)* "}"
ParseMembers(ts, acc) ==
    IF ts = <<>> \/ Head(ts) # Quote THEN SyntaxError
    ELSE LET k == ParseString(Tail(ts), <<>>)
         IN  IF ~k.ok \/ k.rest = <<>> \/ Head(k.rest) # ":" THEN SyntaxError
             ELSE LET p == ParseValue(Tail(k.rest))
                      m == Append(acc, [key |-> k.val.str, value |-> p.val])
                  IN  IF ~p.ok \/ p.rest = <<>> THEN SyntaxError
                      ELSE IF Head(p.rest) = "}" THEN Parsed(JObject(m), Tail(p.rest))
                      ELSE IF Head(p.rest) = "," THEN ParseMembers(Tail(p.rest), m)
                      ELSE SyntaxError

\* JSON.parse(text): ok = FALSE stands for the SyntaxError it throws.
JSONParse(ts) ==
    LET p == ParseValue(ts)
    IN  IF p.ok /\ p.rest = <<>> THEN [ok |-> TRUE, val |-> p.val]
        ELSE [ok |-> FALSE, val |-> JNull]

RECURSIVE JSONStringify(_)
RECURSIVE StringifyItems(_)
RECURSIVE StringifyMembers(_)

StringifyItems(items) ==
    IF items = <<>> THEN <<>>
    ELSE JSONStringify(Head(items))
         \o (IF Len(items) > 1 THEN <<",">> ELSE <<>>)
         \o StringifyItems(Tail(items))

StringifyMembers(ms) ==
    IF ms = <<>> THEN <<>>
    ELSE <<Quote>> \o Head(ms).key \o <<Quote, ":">> \o JSONStringify(Head(ms).value)
         \o (IF Len(ms) > 1 THEN <<",">> ELSE <<>>)
         \o StringifyMembers(Tail(ms))

\* JSON.stringify(value), without indentation.
JSONStringify(v) ==
    IF v.t = "number" THEN <<v.num>>
    ELSE IF v.t = "string" THEN <<Quote>> \o v.str \o <<Quote>>
    ELSE IF v.t = "null" THEN <<"null">>
    ELSE IF v.t = "array" THEN <<"[">> \o StringifyItems(v.items) \o <<"]">>
    ELSE <<"{">> \o StringifyMembers(v.members) \o <<"}">>

-----------------------------------------------------------------------------
(* Messages, tools and what the LLM and the tools may answer *)

\* The question, the user message agent_results puts into inputs.messages.
Question == <<"question">>

NoId == 0

HumanMessage(content) ==
    [type |-> "human", content |-> content, tool_calls |-> <<>>, name |-> "",
     tool_call_id |-> NoId]

AIMessage(content, toolCalls) ==
    [type |-> "ai", content |-> content, tool_calls |-> toolCalls, name |-> "",
     tool_call_id |-> NoId]

ToolMessage(call, content) ==
    [type |-> "tool", content |-> content, tool_calls |-> <<>>, name |-> call.name,
     tool_call_id |-> call.id]

\* What the LLM may ask for in one tool call: the tool and its args.input.
\* An absent input behaves as the empty one (both are falsy).
ToolCallChoices ==
    { [name |-> "query-sql",     input |-> "SELECT 1"],
      [name |-> "query-sql",     input |-> ""],
      [name |-> "query-checker", input |-> "SELECT 2"],
      [name |-> "info-sql",      input |-> "Employee"] }

\* The content of the assistant's messages.
Thought == <<"thinking">>
Answers == {<<"answer", "one">>, <<"answer", "two">>}

\* What query-sql may return: the rows as JSON array text, and, to cover every
\* branch of the capture loop, a single JSON object, a bare number and the text
\* of a failure.
ArrayText == <<"[", "{", Quote, "n", Quote, ":", "8", "}", ",",
                    "{", Quote, "n", Quote, ":", "null", "}", "]">>
ObjectText == <<"{", Quote, "n", Quote, ":", "8", "}">>
NumberText == <<"5">>
ErrorText == <<"QueryFailedError", ":", "no", "such", "table">>

SqlOutputs == {ArrayText, ObjectText, NumberText, ErrorText}

\* What the other tools return: text that is not looked at.
OtherText == <<"ok">>

ToolOutputs(name) ==
    IF name = "query-sql" THEN SqlOutputs ELSE {OtherText}

ToolContents == SqlOutputs \cup {OtherText}

SeqsUpTo(S, n) == UNION {[1..k -> S] : k \in 0..n}

Last(s) == s[Len(s)]

-----------------------------------------------------------------------------
(* The capture loop of agent_results: the body of its for-await loop *)

\* A loop that keeps the first query text instead of the last.
RecordToolCallsFirstWins(cq, toolCalls) ==
    LET named == {i \in 1..Len(toolCalls) :
                    /\ toolCalls[i].name \in {"query-sql", "query-checker"}
                    /\ toolCalls[i].input # ""}
    IN  IF named = {} THEN cq
        ELSE toolCalls[CHOOSE i \in named : \A j \in named : i <= j].input

RECURSIVE RecordToolCalls(_, _)

\* for (const tc of toolCalls): the query text of each query-sql or
\* query-checker call with a truthy input replaces currentQuery, in order.
RecordToolCalls(cq, toolCalls) ==
    IF toolCalls = <<>> THEN cq
    ELSE LET tc == Head(toolCalls)
         IN  RecordToolCalls(
                 IF tc.name \in {"query-sql", "query-checker"} /\ tc.input # ""
                 THEN tc.input ELSE cq,
                 Tail(toolCalls))

\* JSON.parse(toolMessage.content) for every content a tool message may have,
\* computed once.
TryParse == [content \in ToolContents |-> JSONParse(content)]

\* A fallback that stores { result: content } without the array around it.
CaptureResultUnwrapped(content) ==
    IF TryParse[content].ok THEN TryParse[content].val
    ELSE JObject(<<[key |-> <<"result">>, value |-> JString(content)]>>)

\* A capture that wraps whatever was parsed in an array.
CaptureResultWrapsAll(content) ==
    IF TryParse[content].ok THEN JArray(<<TryParse[content].val>>)
    ELSE JArray(<<JObject(<<[key |-> <<"result">>, value |-> JString(content)]>>)>>)

\* try { JSON.parse(content) } catch { [{ result: content }] }
CaptureResult(content) ==
    IF TryParse[content].ok THEN TryParse[content].val
    ELSE JArray(<<JObject(<<[key |-> <<"result">>, value |-> JString(content)]>>)>>)

\* A capture that does not look at the tool's name.
CapturesAnyTool(lastMessage, cq) ==
    lastMessage.type = "tool" /\ cq # ""

\* A capture that does not look at currentQuery.
CapturesWithoutPending(lastMessage, cq) ==
    lastMessage.type = "tool" /\ lastMessage.name = "query-sql"

\* The tool message is pushed to queries.
Captures(lastMessage, cq) ==
    lastMessage.type = "tool" /\ lastMessage.name = "query-sql" /\ cq # ""

\* A loop body that takes the content of every assistant message as the answer.
LoopBodyAnyAi(st, lastMessage) ==
    LET hasCalls == lastMessage.type = "ai" /\ Len(lastMessage.tool_calls) > 0
        cq == IF hasCalls THEN RecordToolCalls(st.currentQuery, lastMessage.tool_calls)
              ELSE st.currentQuery
        push == Captures(lastMessage, cq)
    IN  [queries |->
            IF push
            THEN Append(st.queries,
                        [query |-> cq, result |-> CaptureResult(lastMessage.content)])
            ELSE st.queries,
         currentQuery |-> IF push THEN "" ELSE cq,
         agentResponse |->
            IF lastMessage.type = "ai" THEN lastMessage.content ELSE st.agentResponse]

\* A loop body that forgets the held query on every tool message.
LoopBodyClearsOnAnyTool(st, lastMessage) ==
    LET hasCalls == lastMessage.type = "ai" /\ Len(lastMessage.tool_calls) > 0
        cq == IF hasCalls THEN RecordToolCalls(st.currentQuery, lastMessage.tool_calls)
              ELSE st.currentQuery
        push == Captures(lastMessage, cq)
    IN  [queries |->
            IF push
            THEN Append(st.queries,
                        [query |-> cq, result |-> CaptureResult(lastMessage.content)])
            ELSE st.queries,
         currentQuery |-> IF lastMessage.type = "tool" THEN "" ELSE cq,
         agentResponse |->
            IF lastMessage.type = "ai" /\ ~(Len(lastMessage.tool_calls) > 0)
            THEN lastMessage.content ELSE st.agentResponse]

\* One pass of the loop body over lastMessage, from the capture state st.
LoopBody(st, lastMessage) ==
    LET hasCalls == lastMessage.type = "ai" /\ Len(lastMessage.tool_calls) > 0
        cq == IF hasCalls THEN RecordToolCalls(st.currentQuery, lastMessage.tool_calls)
              ELSE st.currentQuery
        push == Captures(lastMessage, cq)
    IN  [queries |->
            IF push
            THEN Append(st.queries,
                        [query |-> cq, result |-> CaptureResult(lastMessage.content)])
            ELSE st.queries,
         currentQuery |-> IF push THEN "" ELSE cq,
         agentResponse |->
            IF lastMessage.type = "ai" /\ ~(Len(lastMessage.tool_calls) > 0)
            THEN lastMessage.content ELSE st.agentResponse]

\* The capture state at the start of agent_results.
CaptureInit == [queries |-> <<>>, currentQuery |-> "", agentResponse |-> <<>>]

-----------------------------------------------------------------------------
(* The agent graph: agent node, tools node, and the router between them *)

Phases == {"idle", "stream", "agent", "awaiting_llm", "tools", "tools_running",
           "end", "done", "failed"}

\* The node the graph runs after the state whose messages are h.
NextNode(h) ==
    IF Last(h).type = "ai"
    THEN IF Len(Last(h).tool_calls) > 0 THEN "tools" ELSE "end"
    ELSE "agent"

\* The tool calls of an assistant message, numbered from n + 1.
WithIds(choices, n) ==
    [i \in 1..Len(choices) |->
        [id |-> n + i, name |-> choices[i].name, input |-> choices[i].input]]

\* The graph has used up its supersteps.
OutOfStepsNever(n) == FALSE

OutOfSteps(n) == n >= RecursionLimit

\* The output of the invocation of call number i among the finished ones.
OutputOf(done, i) ==
    (CHOOSE f \in {done[j] : j \in 1..Len(done)} : f.idx = i).content

\* A tools node that answers the first tool call only.
ToolMessagesFirstOnly(toolCalls, done) ==
    <<ToolMessage(toolCalls[1], OutputOf(done, 1))>>

\* A tools node that returns the messages in the order the tools completed.
ToolMessagesAsCompleted(toolCalls, done) ==
    [j \in 1..Len(done) |-> ToolMessage(toolCalls[done[j].idx], done[j].content)]

\* The messages the tools node returns: one per tool call, in request order.
ToolMessages(toolCalls, done) ==
    [i \in 1..Len(toolCalls) |-> ToolMessage(toolCalls[i], OutputOf(done, i))]

\* The state of ask.ts as a program, before main runs with the argument argv
\* and with the API key set or not.
NoArg == <<>>
NoError == [name |-> "", message |-> <<>>]
Running == 0 - 1
CliStart(argv, key) ==
    [pc |-> "main", argv |-> argv, key |-> key, out |-> <<>>, net |-> <<>>,
     query |-> "", sqlCalls |-> 0, sqlError |-> <<>>, error |-> NoError,
     exit |-> Running]

\* agent_results called on its own: ask.ts is not the program.
NoCli == [CliStart(NoArg, TRUE) EXCEPT !.pc = "none"]

\* The state of file.ts as a program, before its main runs: the graph's
\* state and current node, the nodes run so far, the queries handed to the
\* query-sql tool, the text sent to the LLM by generateAnswer, and the locals
\* result_2, result_3 and finalResult of main.
NoPrompt == [question |-> <<>>, query |-> "", result |-> <<>>]
FileStart(key) ==
    [pc |-> "main", key |-> key, out |-> <<>>, net |-> <<>>,
     node |-> "__start__",
     state |-> [question |-> <<>>, query |-> "", result |-> <<>>, answer |-> <<>>],
     ran |-> <<>>, sql |-> <<>>, prompt |-> NoPrompt,
     result_2 |-> "", result_3 |-> <<>>, finalResult |-> <<>>,
     error |-> NoError, exit |-> Running]

\* file.ts and the pair of invocations, when they are not what is run.
NoFile == [FileStart(TRUE) EXCEPT !.pc = "none"]
NoRuns == <<>>

\* No agent_results run has been started.
Idle ==
    /\ history = <<>>
    /\ pc = "idle"
    /\ steps = 0
    /\ nCalls = 0
    /\ llmInput = <<>>
    /\ calls = <<>>
    /\ running = {}
    /\ finished = <<>>
    /\ invoked = <<>>
    /\ queries = CaptureInit.queries
    /\ agentResponse = CaptureInit.agentResponse
    /\ currentQuery = CaptureInit.currentQuery
    /\ observed = <<>>
    /\ returned = <<>>

Init ==
    /\ cli = NoCli
    /\ file = NoFile
    /\ runs = NoRuns
    /\ slots = NoRuns
    /\ history = <<HumanMessage(Question)>>
    /\ pc = "stream"
    /\ steps = 0
    /\ nCalls = 0
    /\ llmInput = <<>>
    /\ calls = <<>>
    /\ running = {}
    /\ finished = <<>>
    /\ invoked = <<>>
    /\ queries = CaptureInit.queries
    /\ agentResponse = CaptureInit.agentResponse
    /\ currentQuery = CaptureInit.currentQuery
    /\ observed = <<>>
    /\ returned = <<>>

\* The loop body runs on the state the stream yields.
Capture ==
    /\ pc = "stream"
    /\ LET st == LoopBody([queries |-> queries, currentQuery |-> currentQuery,
                           agentResponse |-> agentResponse], Last(history))
       IN  /\ queries' = st.queries
           /\ currentQuery' = st.currentQuery
           /\ agentResponse' = st.agentResponse
    /\ observed' = Append(observed, Len(history))
    /\ pc' = NextNode(history)
    /\ UNCHANGED <<history, steps, nCalls, llmInput, calls, running, finished,
                   invoked, returned>>
    /\ UNCHANGED outer

\* The agent node sends the messages to the LLM.
CallModel ==
    /\ pc = "agent"
    /\ ~OutOfSteps(steps)
    /\ llmInput' = history
    /\ pc' = "awaiting_llm"
    /\ UNCHANGED <<history, steps, nCalls, calls, running, finished, invoked,
                   queries, agentResponse, currentQuery, observed, returned>>
    /\ UNCHANGED outer

\* The LLM answers with tool calls.
ModelRequestsTools ==
    /\ pc = "awaiting_llm"
    /\ \E choices \in SeqsUpTo(ToolCallChoices, MaxToolCalls - nCalls) :
        /\ choices # <<>>
        /\ history' = Append(history, AIMessage(Thought, WithIds(choices, nCalls)))
        /\ nCalls' = nCalls + Len(choices)
    /\ steps' = steps + 1
    /\ pc' = "stream"
    /\ UNCHANGED <<llmInput, calls, running, finished, invoked, queries,
                   agentResponse, currentQuery, observed, returned>>
    /\ UNCHANGED outer

\* The LLM answers with no tool call.
ModelAnswers ==
    /\ pc = "awaiting_llm"
    /\ \E answer \in Answers :
        history' = Append(history, AIMessage(answer, <<>>))
    /\ steps' = steps + 1
    /\ pc' = "stream"
    /\ UNCHANGED <<nCalls, llmInput, calls, running, finished, invoked, queries,
                   agentResponse, currentQuery, observed, returned>>
    /\ UNCHANGED outer

\* The tools node invokes every tool call of the last message, in request
\* order, and awaits them together.
ToolsStart ==
    /\ pc = "tools"
    /\ ~OutOfSteps(steps)
    /\ calls' = Last(history).tool_calls
    /\ running' = 1..Len(calls')
    /\ finished' = <<>>
    /\ invoked' = invoked \o [i \in 1..Len(calls') |-> calls'[i].id]
    /\ pc' = "tools_running"
    /\ UNCHANGED <<history, steps, nCalls, llmInput, queries, agentResponse,
                   currentQuery, observed, returned>>
    /\ UNCHANGED outer

\* One invocation completes with the tool's output (a failure is output too).
ToolFinish ==
    /\ pc = "tools_running"
    /\ \E i \in running :
        \E out \in ToolOutputs(calls[i].name) :
            /\ running' = running \ {i}
            /\ finished' = Append(finished, [idx |-> i, content |-> out])
    /\ UNCHANGED <<history, pc, steps, nCalls, llmInput, calls, invoked, queries,
                   agentResponse, currentQuery, observed, returned>>
    /\ UNCHANGED outer

\* All invocations are complete: the tools node appends their messages.
ToolsJoin ==
    /\ pc = "tools_running"
    /\ running = {}
    /\ history' = history \o ToolMessages(calls, finished)
    /\ steps' = steps + 1
    /\ calls' = <<>>
    /\ finished' = <<>>
    /\ pc' = "stream"
    /\ UNCHANGED <<nCalls, llmInput, running, invoked, queries, agentResponse,
                   currentQuery, observed, returned>>
    /\ UNCHANGED outer

\* The graph is out of supersteps with a node still to run: the stream throws
\* and agent_results rejects.
RecursionError ==
    /\ pc \in {"agent", "tools"}
    /\ OutOfSteps(steps)
    /\ pc' = "failed"
    /\ UNCHANGED <<history, steps, nCalls, llmInput, calls, running, finished,
                   invoked, queries, agentResponse, currentQuery, observed, returned>>
    /\ UNCHANGED outer

\* The stream ends: agent_results returns { queries, finalAnswer }.
Return ==
    /\ pc = "end"
    /\ returned' = <<[queries |-> queries, finalAnswer |-> agentResponse]>>
    /\ pc' = "done"
    /\ UNCHANGED <<history, steps, nCalls, llmInput, calls, running, finished,
                   invoked, queries, agentResponse, currentQuery, observed>>
    /\ UNCHANGED outer

Next ==
    \/ Capture
    \/ CallModel
    \/ ModelRequestsTools
    \/ ModelAnswers
    \/ ToolsStart
    \/ ToolFinish
    \/ ToolsJoin
    \/ RecursionError
    \/ Return

Spec == Init /\ [][Next]_vars

\* The LLM and the tools answer, and the event loop runs what is ready.
FairSpec == Spec /\ WF_vars(Next)

TypeOK ==
    /\ pc \in Phases
    /\ steps \in 0..RecursionLimit
    /\ nCalls \in 0..MaxToolCalls
    /\ running \subseteq 1..Len(calls)

-----------------------------------------------------------------------------
(* ask.ts as a program: main, askQuestion and generate_sql_query around the  *)
(* agent run.  cli.out lists the kinds of lines printed, cli.net the calls   *)
(* that leave the machine, cli.exit the exit code of the process.            *)

Arguments == {NoArg, Question}

ApiKeyError == [name |-> "Error", message |-> <<"ANTHROPIC_API_KEY", "is", "not", "set">>]
JsonSyntaxError == [name |-> "SyntaxError", message |-> <<"Unexpected", "token">>]
GraphRecursionError == [name |-> "GraphRecursionError", message |-> <<"Recursion", "limit">>]

\* The SQL the structured LLM of the direct pipeline writes.
PipelineQueries == {"SELECT COUNT(*) FROM Employee", "SELECT * FROM Nowhere"}

\* askQuestion's catch: the error is printed and askQuestion returns; main
\* returns after it and the process ends with the default exit code.
Caught(c, error) ==
    [c EXCEPT !.out = Append(@, "error"), !.error = error, !.exit = 0,
              !.pc = "exited"]

CliInit ==
    /\ cli \in {CliStart(argv, key) : argv \in Arguments, key \in BOOLEAN}
    /\ file = NoFile
    /\ runs = NoRuns
    /\ slots = NoRuns
    /\ Idle

\* main, and askQuestion up to the LLM request of generate_sql_query.
AskMain ==
    /\ cli.pc = "main"
    /\ cli' =
        IF cli.argv = NoArg
        THEN [cli EXCEPT !.out = <<"usage">>, !.exit = 1, !.pc = "exited"]
        ELSE LET asked == [cli EXCEPT !.out = <<"question">>]
             IN  IF ~cli.key
                 THEN Caught(asked, ApiKeyError)
                 ELSE [asked EXCEPT !.net = <<"pull", "llm">>, !.pc = "pipeline_llm"]
    /\ UNCHANGED <<agentVars, file, runs, slots>>

\* A generate_sql_query that takes any text of the tool as its result.
ParseThrowsNever(queryResult) == FALSE

\* generate_sql_query: JSON.parse throws on the text the tool returned.
ParseThrows(queryResult) == ~TryParse[queryResult].ok

\* generate_sql_query: the structured LLM answers and the query it wrote is
\* handed to the query-sql tool.
GenerateSqlQueryModelAnswers ==
    /\ cli.pc = "pipeline_llm"
    /\ \E query \in PipelineQueries :
        cli' = [cli EXCEPT !.query = query, !.sqlCalls = @ + 1,
                           !.pc = "pipeline_tool"]
    /\ UNCHANGED <<agentVars, file, runs, slots>>

\* generate_sql_query: the tool returns its text (a failure is text too) and
\* the text is parsed; askQuestion prints the query and the result, which it
\* does not use again, and calls agent_results, or it catches what
\* generate_sql_query threw.
GenerateSqlQueryToolReturns ==
    /\ cli.pc = "pipeline_tool"
    /\ \E queryResult \in SqlOutputs :
        LET seen == [cli EXCEPT !.sqlError =
                        IF queryResult = ErrorText THEN queryResult ELSE @]
        IN  IF ParseThrows(queryResult)
            THEN /\ cli' = Caught(seen, JsonSyntaxError)
                 /\ UNCHANGED <<history, pc>>
            ELSE /\ cli' = [seen EXCEPT
                        !.out = @ \o <<"sql-query", "clipboard", "sql-result",
                                       "getting-agent">>,
                        !.net = @ \o <<"pull", "llm">>,
                        !.query = "",
                        !.pc = "agent"]
                 /\ history' = <<HumanMessage(cli.argv)>>
                 /\ pc' = "stream"
    /\ UNCHANGED <<steps, nCalls, llmInput, calls, running, finished, invoked,
                   queries, agentResponse, currentQuery, observed, returned>>
    /\ UNCHANGED <<file, runs, slots>>

\* agent_results resolved: askQuestion prints the agent's queries and answer.
AskQuestionPrintsAgent ==
    /\ cli.pc = "agent"
    /\ pc = "done"
    /\ cli' = [cli EXCEPT
            !.out = @ \o (IF Len(returned[1].queries) > 0
                          THEN <<"agent-queries">> ELSE <<>>)
                      \o <<"agent-response">>,
            !.exit = 0,
            !.pc = "exited"]
    /\ UNCHANGED <<agentVars, file, runs, slots>>

\* agent_results rejected: askQuestion's catch.
AskQuestionCatchesAgent ==
    /\ cli.pc = "agent"
    /\ pc = "failed"
    /\ cli' = Caught(cli, GraphRecursionError)
    /\ UNCHANGED <<agentVars, file, runs, slots>>

CliNext ==
    \/ AskMain
    \/ GenerateSqlQueryModelAnswers
    \/ GenerateSqlQueryToolReturns
    \/ AskQuestionPrintsAgent
    \/ AskQuestionCatchesAgent
    \/ Next

CliSpec == CliInit /\ [][CliNext]_vars

-----------------------------------------------------------------------------
(* file.ts as a program: main tries writeQuery and executeQuery, builds the  *)
(* graph writeQuery -> executeQuery -> generateAnswer and streams it.        *)

FileQuestion == <<"Show", "how", "to", "join", "two", "tables">>
TestQuery == "SELECT COUNT(*) AS EmployeeCount FROM Employee;"

\* A graph whose edge from writeQuery leads to generateAnswer.
NextStageSkipsExecute(node) ==
    IF node = "__start__" THEN "writeQuery"
    ELSE IF node = "writeQuery" THEN "generateAnswer"
    ELSE "__end__"

\* The edges of the graph: the node that runs after node.
NextStage(node) ==
    IF node = "__start__" THEN "writeQuery"
    ELSE IF node = "writeQuery" THEN "executeQuery"
    ELSE IF node = "executeQuery" THEN "generateAnswer"
    ELSE "__end__"

\* What generateAnswer puts into its prompt.
GenerateAnswerPrompt(state) ==
    [question |-> state.question, query |-> state.query, result |-> state.result]

\* The graph enters node: the node runs up to the call it awaits.
Enter(f, node) ==
    LET g == [f EXCEPT !.node = node,
                       !.ran = IF node = "__end__" THEN @ ELSE Append(@, node)]
    IN  IF node = "writeQuery" THEN [g EXCEPT !.net = Append(@, "llm")]
        ELSE IF node = "executeQuery"
        THEN [g EXCEPT !.sql = Append(@, g.state.query)]
        ELSE IF node = "generateAnswer"
        THEN [g EXCEPT !.prompt = GenerateAnswerPrompt(g.state),
                       !.net = Append(@, "llm")]
        ELSE g

\* The current node returned update, which gives the graph's state merged:
\* the stream yields the update, main's loop prints and keeps it, and the
\* graph goes on to the next node.
Yield(f, update, merged) ==
    Enter([f EXCEPT !.state = merged,
                    !.finalResult = Append(@, [node |-> f.node, update |-> update]),
                    !.out = Append(@, "step")],
          NextStage(f.node))

FileInit ==
    /\ file \in {FileStart(key) : key \in BOOLEAN}
    /\ cli = NoCli
    /\ runs = NoRuns
    /\ slots = NoRuns
    /\ Idle

\* main up to the LLM request of its trial call of writeQuery.
FileMain ==
    /\ file.pc = "main"
    /\ file' =
        LET pulled == [file EXCEPT !.out = <<"artists", "template">>,
                                   !.net = <<"pull">>]
        IN  IF ~file.key
            THEN [pulled EXCEPT !.out = Append(@, "error"), !.error = ApiKeyError,
                                !.exit = 0, !.pc = "exited"]
            ELSE [pulled EXCEPT !.net = Append(@, "llm"), !.pc = "trying_writeQuery"]
    /\ UNCHANGED <<agentVars, cli, runs, slots>>

\* The trial call of writeQuery returns; executeQuery is tried on a fixed query.
WriteQueryTrial ==
    /\ file.pc = "trying_writeQuery"
    /\ \E query \in PipelineQueries :
        file' = [file EXCEPT !.result_2 = query,
                             !.out = Append(@, "result_2"),
                             !.sql = Append(@, TestQuery),
                             !.pc = "trying_executeQuery"]
    /\ UNCHANGED <<agentVars, cli, runs, slots>>

\* The trial call of executeQuery returns; the graph is built and streamed.
ExecuteQueryTrial ==
    /\ file.pc = "trying_executeQuery"
    /\ \E result \in SqlOutputs :
        file' = Enter([file EXCEPT !.result_3 = result,
                                   !.out = @ \o <<"result_3", "inputs">>,
                                   !.state.question = FileQuestion,
                                   !.pc = "graph"],
                      NextStage("__start__"))
    /\ UNCHANGED <<agentVars, cli, runs, slots>>

\* The node writeQuery: the structured LLM answers with a query.
WriteQuery ==
    /\ file.pc = "graph"
    /\ file.node = "writeQuery"
    /\ \E query \in PipelineQueries :
        file' = Yield(file, [query |-> query], [file.state EXCEPT !.query = query])
    /\ UNCHANGED <<agentVars, cli, runs, slots>>

\* The node executeQuery: the query-sql tool returns its text.
ExecuteQuery ==
    /\ file.pc = "graph"
    /\ file.node = "executeQuery"
    /\ \E result \in SqlOutputs :
        file' = Yield(file, [result |-> result], [file.state EXCEPT !.result = result])
    /\ UNCHANGED <<agentVars, cli, runs, slots>>

\* The node generateAnswer: the LLM answers the prompt.
GenerateAnswer ==
    /\ file.pc = "graph"
    /\ file.node = "generateAnswer"
    /\ \E answer \in Answers :
        file' = Yield(file, [answer |-> answer], [file.state EXCEPT !.answer = answer])
    /\ UNCHANGED <<agentVars, cli, runs, slots>>

\* The stream is at its end: main prints finalResult and returns.
FileMainReturns ==
    /\ file.pc = "graph"
    /\ file.node = "__end__"
    /\ file' = [file EXCEPT !.out = Append(@, "final"), !.exit = 0, !.pc = "exited"]
    /\ UNCHANGED <<agentVars, cli, runs, slots>>

FileNext ==
    \/ FileMain
    \/ WriteQueryTrial
    \/ ExecuteQueryTrial
    \/ WriteQuery
    \/ ExecuteQuery
    \/ GenerateAnswer
    \/ FileMainReturns

FileSpec == FileInit /\ [][FileNext]_vars

-----------------------------------------------------------------------------
(* Two invocations of agent_results side by side, for two questions.  Each   *)
(* builds its own graph (runs[r]) and declares its own queries,              *)
(* agentResponse and currentQuery (slots[SlotOf(r)]); a run is suspended     *)
(* while it awaits the LLM, the tools or the next state of its stream, and   *)
(* the other run may go on meanwhile.                                        *)

Runs == {1, 2}
Questions == <<Question, <<"another", "question">>>>

\* The number of tool calls the LLM may request in each of the two runs.
PairToolCalls == 1

\* The tool calls the LLM asks for in the two runs: those with an argument.
PairCallChoices == {c \in ToolCallChoices : c.input # ""}

\* Capture variables declared at module level: one set for all invocations.
SlotShared(r) == 1

\* Where the capture variables of invocation r live: they are locals of
\* agent_results, so every invocation has its own.
SlotOf(r) == r

RunStart(r) ==
    [history |-> <<HumanMessage(Questions[r])>>, pc |-> "stream", nCalls |-> 0,
     observed |-> <<>>, returned |-> <<>>]

PairInit ==
    /\ runs = [r \in Runs |-> RunStart(r)]
    /\ slots = [k \in {SlotOf(r) : r \in Runs} |-> CaptureInit]
    /\ cli = NoCli
    /\ file = NoFile
    /\ Idle

\* The loop body of run r handles the state its stream yielded; the graph of
\* r goes on to its next node, up to the call that node awaits.
PairCapture(r) ==
    /\ runs[r].pc = "stream"
    /\ slots' = [slots EXCEPT ![SlotOf(r)] = LoopBody(@, Last(runs[r].history))]
    /\ runs' = [runs EXCEPT ![r].observed = Append(@, Len(runs[r].history)),
                            ![r].pc = NextNode(runs[r].history)]
    /\ UNCHANGED <<agentVars, cli, file>>

\* The LLM answers run r with tool calls.
PairModelRequestsTools(r) ==
    /\ runs[r].pc = "agent"
    /\ \E choices \in SeqsUpTo(PairCallChoices, PairToolCalls - runs[r].nCalls) :
        /\ choices # <<>>
        /\ runs' = [runs EXCEPT
                ![r].history = Append(@, AIMessage(Thought,
                                                   WithIds(choices, runs[r].nCalls))),
                ![r].nCalls = @ + Len(choices),
                ![r].pc = "stream"]
    /\ UNCHANGED <<agentVars, cli, file, slots>>

\* The LLM answers run r with no tool call.
PairModelAnswers(r) ==
    /\ runs[r].pc = "agent"
    /\ \E answer \in Answers :
        runs' = [runs EXCEPT ![r].history = Append(@, AIMessage(answer, <<>>)),
                             ![r].pc = "stream"]
    /\ UNCHANGED <<agentVars, cli, file, slots>>

\* The tools of run r have all returned: their messages join its history.
PairToolsReturn(r) ==
    /\ runs[r].pc = "tools"
    /\ LET toolCalls == Last(runs[r].history).tool_calls
       IN  \E outs \in [1..Len(toolCalls) -> ToolContents] :
            /\ \A i \in 1..Len(toolCalls) : outs[i] \in ToolOutputs(toolCalls[i].name)
            /\ runs' = [runs EXCEPT
                    ![r].history = @ \o ToolMessages(toolCalls,
                        [i \in 1..Len(toolCalls) |-> [idx |-> i, content |-> outs[i]]]),
                    ![r].pc = "stream"]
    /\ UNCHANGED <<agentVars, cli, file, slots>>

\* The stream of run r is at its end: agent_results returns.
PairReturn(r) ==
    /\ runs[r].pc = "end"
    /\ runs' = [runs EXCEPT
            ![r].returned = <<[queries |-> slots[SlotOf(r)].queries,
                               finalAnswer |-> slots[SlotOf(r)].agentResponse]>>,
            ![r].pc = "done"]
    /\ UNCHANGED <<agentVars, cli, file, slots>>

PairNext ==
    \E r \in Runs :
        \/ PairCapture(r)
        \/ PairModelRequestsTools(r)
        \/ PairModelAnswers(r)
        \/ PairToolsReturn(r)
        \/ PairReturn(r)

PairSpec == PairInit /\ [][PairNext]_vars

-----------------------------------------------------------------------------
(* Tool calls and their answers *)

\* The tool calls of the messages h, each with the position of its message.
Requests(h) ==
    UNION {{[at |-> p, call |-> h[p].tool_calls[i]] : i \in 1..Len(h[p].tool_calls)} :
        p \in 1..Len(h)}

Answered(h, r) ==
    \E q \in (r.at + 1)..Len(h) :
        h[q].type = "tool" /\ h[q].tool_call_id = r.call.id

\* The tool calls of h that no later tool message of h answers.
Orphans(h) == {r \in Requests(h) : ~Answered(h, r)}

\* C1: every request sent to the LLM carries the whole history, and no tool
\* call in it is unanswered: each ToolCallRequest of an assistant message has
\* its tool message in the history before the next LLM request is sent.
C1_NoOrphanSentToLLM ==
    /\ Orphans(llmInput) = {}
    /\ pc = "awaiting_llm" => llmInput = history

\* An LLM request is in flight after a turn that carried two tool calls.
C1_Witness ==
    /\ pc = "awaiting_llm"
    /\ \E p \in 1..Len(llmInput) : Len(llmInput[p].tool_calls) >= 2

-----------------------------------------------------------------------------
(* Termination *)

Terminated == pc \in {"done", "failed"}

-----------------------------------------------------------------------------
(* Order of the tool invocations *)

\* The tool messages that answer the assistant message at p follow it, one
\* per tool call and in the order of its tool calls.
AnsweredInOrder(h, p) ==
    \A i \in 1..Len(h[p].tool_calls) :
        /\ p + i <= Len(h)
        /\ h[p + i].type = "tool"
        /\ h[p + i].tool_call_id = h[p].tool_calls[i].id
        /\ h[p + i].name = h[p].tool_calls[i].name

\* Tool calls are invoked in request order: ids are given in request order.
InvokedInRequestOrder == \A j \in 1..Len(invoked) : invoked[j] = j

-----------------------------------------------------------------------------
(* queries against the query-sql messages the loop has seen *)

IsSqlMessage(m) == m.type = "tool" /\ m.name = "query-sql"

\* The query-sql tool messages the capture loop has handled.
ObservedSql == {j \in 1..Len(observed) : IsSqlMessage(history[observed[j]])}

\* C4: queries never holds more entries than query-sql tool messages have been
\* observed, in the loop and in the AgentResult returned.
C4_QueriesAtMostObserved ==
    /\ Len(queries) <= Cardinality(ObservedSql)
    /\ \A k \in 1..Len(returned) :
        Len(returned[k].queries) <= Cardinality(ObservedSql)

\* Returned with one query captured out of two query-sql messages observed.
C4_Witness ==
    /\ Len(returned) = 1
    /\ Len(returned[1].queries) = 1
    /\ Cardinality(ObservedSql) = 2

-----------------------------------------------------------------------------
(* Incremental capture against a scan of the whole history *)

RECURSIVE RescanFrom(_, _, _)

\* The capture rules applied to the messages i.. of h, in order, from st.
RescanFrom(st, h, i) ==
    IF i > Len(h) THEN st
    ELSE RescanFrom(LoopBody(st, h[i]), h, i + 1)

Rescan(h) == RescanFrom(CaptureInit, h, 1)

\* C5: the AgentResult returned equals the one the capture rules give when
\* applied to every message of the final history.
C5_FoldEqualsRescan ==
    \A k \in 1..Len(returned) :
        /\ returned[k].queries = Rescan(history).queries
        /\ returned[k].finalAnswer = Rescan(history).agentResponse

-----------------------------------------------------------------------------
(* What is captured from a query-sql tool message *)

\* The loop body is about to run on a query-sql tool message.
AtSqlMessage == pc = "stream" /\ IsSqlMessage(Last(history))

\* The loop body has just run on a query-sql tool message, the only one so far.
AfterFirstSqlMessage ==
    /\ pc = "agent"
    /\ IsSqlMessage(Last(history))
    /\ observed # <<>>
    /\ Last(observed) = Len(history)
    /\ Cardinality(ObservedSql) = 1

\* queries gains exactly the entry e.
Pushes(e) == queries' = Append(queries, e)

\* [{ result: <raw content> }]
FallbackRows(content) ==
    JArray(<<JObject(<<[key |-> <<"result">>, value |-> JString(content)]>>)>>)

\* The rows of ArrayText: { n: 8 } and { n: null }, in this order.
ArrayRows ==
    JArray(<<JObject(<<[key |-> <<"n">>, value |-> JNumber("8")]>>),
             JObject(<<[key |-> <<"n">>, value |-> JNull]>>)>>)

C7_RowsAlwaysSequence ==
    \A i \in 1..Len(queries) : IsArray(queries[i].result)

\* C8: JSON array text observed while a query is held is captured with that
\* query and with rows equal to the array the text denotes: the same elements
\* in the same order, which written back as JSON give the text again.
C8_ArrayRoundTrip ==
    [][(AtSqlMessage /\ currentQuery # "" /\ Last(history).content = ArrayText)
        => /\ Pushes([query |-> currentQuery, result |-> ArrayRows])
           /\ JSONStringify(Last(queries').result) = Last(history).content]_vars

\* The two rows of ArrayText have been captured.
C8_Witness ==
    /\ AfterFirstSqlMessage
    /\ Last(history).content = ArrayText
    /\ Len(queries) = 1
    /\ queries[1].result = ArrayRows
    /\ queries[1].query # ""

-----------------------------------------------------------------------------
(* The query held from the tool calls of an assistant message *)

\* The loop body is about to run on an assistant message with tool calls.
AtToolCalls ==
    /\ pc = "stream"
    /\ Last(history).type = "ai"
    /\ Len(Last(history).tool_calls) > 0

IsQueryCall(tc) == tc.name \in {"query-sql", "query-checker"}

\* The last index of tcs in the set idx.
LastOf(idx) == CHOOSE i \in idx : \A j \in idx : j <= i

\* The original C9: the input of the last query-sql or query-checker request
\* is held afterwards; without such a request the held query is unchanged.
C9_LastNamedRequestWins ==
    [][AtToolCalls =>
        LET tcs == Last(history).tool_calls
            named == {i \in 1..Len(tcs) : IsQueryCall(tcs[i])}
        IN  currentQuery' = IF named = {} THEN currentQuery
                            ELSE tcs[LastOf(named)].input]_vars

\* C9 (amended): the input of the last query-sql or query-checker request
\* whose input is not empty is held afterwards; requests of another name, and
\* requests with an empty or absent input, leave the held query unchanged.
C9_LastNonEmptyRequestWins ==
    [][AtToolCalls =>
        LET tcs == Last(history).tool_calls
            named == {i \in 1..Len(tcs) : IsQueryCall(tcs[i]) /\ tcs[i].input # ""}
        IN  /\ currentQuery' = IF named = {} THEN currentQuery
                               ELSE tcs[LastOf(named)].input
            /\ queries' = queries
            /\ agentResponse' = agentResponse]_vars

\* A turn asked for query-sql, then query-checker, then query-sql with an
\* empty input: the query-checker's text is held.
C9_Witness ==
    /\ pc = "tools"
    /\ Len(Last(history).tool_calls) = 3
    /\ LET tcs == Last(history).tool_calls
       IN  /\ tcs[1].name = "query-sql" /\ tcs[1].input # ""
           /\ tcs[2].name = "query-checker" /\ tcs[2].input # tcs[1].input
           /\ tcs[3].name = "query-sql" /\ tcs[3].input = ""
           /\ currentQuery = tcs[2].input

-----------------------------------------------------------------------------
(* A query-sql result with no query held *)

\* C10: a query-sql tool message observed while no query is held changes
\* neither queries nor finalAnswer nor the held query, and the run goes on
\* to the next LLM request.
C10_DroppedWithoutPending ==
    [][(AtSqlMessage /\ currentQuery = "")
        => /\ queries' = queries
           /\ agentResponse' = agentResponse
           /\ currentQuery' = ""
           /\ observed' = Append(observed, Len(history))
           /\ pc' = "agent"]_vars

\* A query-sql tool message has been observed and nothing was captured.
C10_Witness ==
    /\ AfterFirstSqlMessage
    /\ queries = <<>>
    /\ currentQuery = ""

-----------------------------------------------------------------------------
(* The final answer *)

IsTerminalMessage(m) == m.type = "ai" /\ Len(m.tool_calls) = 0

\* C11: the finalAnswer returned is the content of the terminal assistant
\* message, the last message of the history and its only assistant message
\* without tool calls; an assistant message with tool calls leaves
\* agentResponse as it was.
C11_FinalAnswerIsTerminalContent ==
    /\ [](\A k \in 1..Len(returned) :
            /\ IsTerminalMessage(Last(history))
            /\ returned[k].finalAnswer = Last(history).content
            /\ \A p \in 1..(Len(history) - 1) : ~IsTerminalMessage(history[p]))
    /\ [][AtToolCalls => agentResponse' = agentResponse]_vars

\* Returned after a turn with tool calls, whose content is not the answer.
C11_Witness ==
    /\ Len(returned) = 1
    /\ \E p \in 1..Len(history) :
        /\ history[p].type = "ai"
        /\ Len(history[p].tool_calls) > 0
        /\ history[p].content # returned[1].finalAnswer
    /\ returned[1].finalAnswer = Last(history).content
    /\ returned[1].finalAnswer # <<>>

-----------------------------------------------------------------------------
(* Only query-sql results are captured *)

\* The loop body is about to run on the message of a tool other than query-sql.
AtOtherToolMessage ==
    pc = "stream" /\ Last(history).type = "tool" /\ Last(history).name # "query-sql"

\* A run of one info-sql turn, one query-sql turn that carries SQL text, and
\* the answer.
LookupThenQuery ==
    /\ Len(history) = 6
    /\ Len(history[2].tool_calls) = 1
    /\ history[2].tool_calls[1].name = "info-sql"
    /\ Len(history[4].tool_calls) = 1
    /\ history[4].tool_calls[1].name = "query-sql"
    /\ history[4].tool_calls[1].input # ""

\* C12: a tool message of a tool other than query-sql adds nothing to
\* queries; a run of a schema lookup and then one executed query returns one
\* QueryResult, for that query, and the terminal message's content as answer.
C12_OnlySqlCaptured ==
    /\ [][AtOtherToolMessage => queries' = queries]_vars
    /\ []((Len(returned) = 1 /\ LookupThenQuery) =>
            /\ Len(returned[1].queries) = 1
            /\ returned[1].queries[1].query = history[4].tool_calls[1].input
            /\ returned[1].finalAnswer = history[6].content
            /\ returned[1].finalAnswer \in Answers)

\* The lookup-then-query run has returned.
C12_Witness ==
    /\ Len(returned) = 1
    /\ LookupThenQuery
    /\ Len(returned[1].queries) = 1

-----------------------------------------------------------------------------
(* How long a query is held *)

\* The loop body is about to run on an assistant message: every tool call
\* before it has been answered.
AtAssistantMessage == pc = "stream" /\ Last(history).type = "ai"

-----------------------------------------------------------------------------
(* Which query a result is paired with *)

\* The tool call that the tool message m of h answers.
CallOf(h, m) == (CHOOSE r \in Requests(h) : r.call.id = m.tool_call_id).call

\* C20: a captured QueryResult carries the SQL text of the query-sql call
\* whose tool message gave its rows, and is added at the end of queries.
C20_PairedWithItsCall ==
    [][(AtSqlMessage /\ queries' # queries) =>
        /\ Len(queries') = Len(queries) + 1
        /\ SubSeq(queries', 1, Len(queries)) = queries
        /\ Last(queries').query = CallOf(history, Last(history)).input]_vars

-----------------------------------------------------------------------------
(* What the caller of the agent receives *)

Printed(tag) == \E i \in 1..Len(cli.out) : cli.out[i] = tag

\* C13: askQuestion ends either with the AgentResult of the run or with one
\* error; when the run fails after QueryResults have been captured, what
\* agent_results hands to its caller carries those QueryResults.
C13_FailureCarriesPartial ==
    (cli.pc = "exited" /\ pc \in {"done", "failed"}) =>
        /\ (pc = "done") = (Printed("agent-response") /\ cli.error = NoError)
        /\ (pc = "failed") = (cli.error # NoError)
        /\ (pc = "failed" /\ Len(queries) > 0) =>
                /\ Len(returned) = 1
                /\ returned[1].queries = queries

-----------------------------------------------------------------------------
(* Exit codes *)

\* C14: the process ends with code 1 and the usage text when no question is
\* given, with code 0 after a run without error, and with a code other than 0
\* when the direct pipeline or the agent failed.
C14_ExitCodes ==
    cli.pc = "exited" =>
        /\ (cli.argv = NoArg) => (cli.exit = 1 /\ cli.out = <<"usage">>)
        /\ (cli.argv # NoArg /\ cli.error = NoError) => cli.exit = 0
        /\ (cli.error \in {JsonSyntaxError, GraphRecursionError}) => cli.exit # 0

-----------------------------------------------------------------------------
(* The direct pipeline's SQL failures *)

\* C17: generate_sql_query invokes the query-sql tool once and asks the LLM
\* for one query; when the tool reports a failure of the SQL, that failure is
\* what askQuestion catches.
C17_SqlFailurePropagated ==
    /\ cli.sqlCalls <= 1
    /\ cli.pc \in {"agent", "exited"} /\ cli.key /\ cli.argv # NoArg
            => cli.sqlCalls = 1
    /\ (cli.pc = "exited" /\ cli.sqlError # <<>>) =>
            cli.error = [name |-> "QueryFailedError", message |-> cli.sqlError]

-----------------------------------------------------------------------------
(* Without the API key *)

\* C15: without the API key no program makes a call that leaves the machine,
\* neither the pull of the prompt nor a request to the LLM.
C15_NoNetworkWithoutKey ==
    /\ ~cli.key => cli.net = <<>>
    /\ ~file.key => file.net = <<>>

-----------------------------------------------------------------------------
(* The three stages of the direct pipeline *)

StageOrder == <<"writeQuery", "executeQuery", "generateAnswer">>

\* C16: the graph runs writeQuery, executeQuery and generateAnswer once each
\* in that order; the prompt of generateAnswer holds the question given to
\* the graph, the query writeQuery returned and the result executeQuery
\* returned, and that query is the one the query-sql tool was given.
C16_StagesOnceInOrder ==
    /\ Len(file.ran) <= Len(StageOrder)
    /\ file.ran = SubSeq(StageOrder, 1, Len(file.ran))
    /\ (file.pc = "exited" /\ file.error = NoError) =>
            /\ file.ran = StageOrder
            /\ Len(file.finalResult) = Len(StageOrder)
    /\ file.prompt # NoPrompt =>
            /\ file.prompt.question = FileQuestion
            /\ file.prompt.query = file.finalResult[1].update.query
            /\ file.prompt.result = file.finalResult[2].update.result
            /\ file.sql = <<TestQuery, file.prompt.query>>

\* The graph has run to its end, on a query that failed in the database.
C16_Witness ==
    /\ file.pc = "exited"
    /\ file.ran = StageOrder
    /\ file.prompt.result = ErrorText
    /\ file.state.answer \in Answers

-----------------------------------------------------------------------------
(* Two invocations side by side *)

\* The capture state after the loop body has handled, in turn, the messages
\* of h at the positions obs[k..].
RECURSIVE Replay(_, _, _, _)
Replay(st, h, obs, k) ==
    IF k > Len(obs) THEN st
    ELSE Replay(LoopBody(st, h[obs[k]]), h, obs, k + 1)

\* C18: a step in which an invocation does not move leaves its PendingQuery,
\* queries and answer as they were; at every moment they are what the loop
\* body made of the messages the invocation observed in its own history,
\* which starts with its own question; and what it returns is that.
C18_InvocationsIndependent ==
    /\ [][\A r \in Runs :
            runs'[r] = runs[r] => slots'[SlotOf(r)] = slots[SlotOf(r)]]_vars
    /\ [](\A r \in Runs :
            /\ runs[r].history[1] = HumanMessage(Questions[r])
            /\ slots[SlotOf(r)] =
                    Replay(CaptureInit, runs[r].history, runs[r].observed, 1)
            /\ \A k \in 1..Len(runs[r].returned) :
                    /\ runs[r].returned[k].queries = slots[SlotOf(r)].queries
                    /\ runs[r].returned[k].finalAnswer = Last(runs[r].history).content)

\* One invocation holds a query while the other, which has captured a
\* QueryResult of its own, has returned.
C18_Witness ==
    \E r \in Runs : \E o \in Runs \ {r} :
        /\ slots[SlotOf(r)].currentQuery # ""
        /\ runs[r].pc = "tools"
        /\ runs[o].pc = "done"
        /\ Len(runs[o].returned[1].queries) = 1
        /\ slots[SlotOf(o)].currentQuery = ""

-----------------------------------------------------------------------------
(* The direct pipeline comes before the agent *)

AgentOutputPrinted ==
    Printed("getting-agent") \/ Printed("agent-queries") \/ Printed("agent-response")

\* C21: the agent run starts only in the step in which generate_sql_query
\* returns, after one query-sql call whose result askQuestion has printed;
\* when askQuestion fails before that, and whenever the query-sql tool
\* returned text that is not JSON, the agent run is never started and nothing
\* of the agent is printed.
C21_PipelineBeforeAgent ==
    /\ [][(pc = "idle" /\ pc' # "idle") =>
            /\ cli.pc = "pipeline_tool"
            /\ cli'.pc = "agent"
            /\ cli'.sqlCalls = 1
            /\ pc' = "stream"]_vars
    /\ [](pc # "idle" =>
            /\ Printed("sql-query") /\ Printed("sql-result")
            /\ cli.sqlError = <<>>
            /\ cli.error \notin {ApiKeyError, JsonSyntaxError})
    /\ [](AgentOutputPrinted => pc # "idle")
    /\ []((cli.error \in {ApiKeyError, JsonSyntaxError} \/ cli.sqlError # <<>>) =>
            /\ pc = "idle"
            /\ history = <<>>
            /\ ~AgentOutputPrinted
            /\ cli.pc = "exited")

\* The query-sql tool returned the text of a failure: askQuestion has ended
\* with the error printed and no agent run.
C21_Witness ==
    /\ cli.pc = "exited"
    /\ cli.sqlError = ErrorText
    /\ cli.error = JsonSyntaxError
    /\ Printed("error")
    /\ pc = "idle"

====
